---- MODULE Spec2Model ----
(***************************************************************************)
(* Two-body orbit propagators of sat-py: the shared setup()/propagate()    *)
(* lifecycle of astro/propagation/base.py, the universal-variable          *)
(* propagator of astro/propagation/universal_variable.py and the classical *)
(* Keplerian propagator of astro/propagation.py.                           *)
(*                                                                         *)
(* Numbers.  Times are exact rationals with denominator DefaultSteps and   *)
(* are stored as their integer numerator, so that the default step size    *)
(* (final_time - orbit.time) / 10000 is an integer whenever the times are  *)
(* whole.  Floating-point rounding is not modelled.                        *)
(*                                                                         *)
(* Vectors and scalars that the code computes with transcendental          *)
(* functions are kept as the expressions that compute them (records        *)
(* [op, n, args]).  A value produced inside one propagate() call is        *)
(* With(r0, v0, x0, x, e): the expression e over the call's locals, whose   *)
(* values are r0 (initial_position), v0 (initial_velocity), x0 (the epoch  *)
(* anomaly) and x (the value the Newton solve of the iteration returned).  *)
(* Inside e the locals are the leaves R0, V0, X0, X, and a read of         *)
(* self.orbit.position / self.orbit.velocity is the leaf OrbitPosition(j) /*)
(* OrbitVelocity(j): the value assigned by loop iteration j of the same    *)
(* call (j = 0: the value on entry).                                       *)
(*                                                                         *)
(* A history array is [n, a]: its number of columns and the columns that   *)
(* have been assigned; a column never assigned holds the zero np.zeros     *)
(* put there.                                                              *)
(***************************************************************************)
EXTENDS Integers, Sequences, FiniteSets, TLC

\* ------------------------------------------------------------------ bounds
MaxCalls == 3
MaxSamples == 4
MaxX == 3
MaxAlpha == 3
MaxTol == 2
MaxIter == 3
HalfTurn == 4

\* --------------------------------------------------------------- constants
DefaultSteps == 10000

Props == {"p1", "p2"}
Orbits == {"o1", "o2"}
Sec(n) == n * DefaultSteps
FinalTimes == {Sec(0), Sec(1), Sec(3)}
StepSizes == {Sec(1), Sec(2)}

\* ------------------------------------------------------------------ values
None == [set |-> FALSE, v |-> 0]
Some(x) == [set |-> TRUE, v |-> x]

T(op, args) == [op |-> op, n |-> 0, args |-> args]
Num(i) == [op |-> "num", n |-> i, args |-> <<>>]
Ellipsis == T("...", <<>>)
Zeros == T("zeros", <<>>)
R0 == T("initial_position", <<>>)
V0 == T("initial_velocity", <<>>)
OrbitPosition(j) == T("orbit.position", <<Num(j)>>)
OrbitVelocity(j) == T("orbit.velocity", <<Num(j)>>)
X0 == T("initial_anomaly", <<>>)
X == T("anomaly", <<>>)
With(r0, v0, x0, x, e) == T("with", <<r0, v0, x0, x, e>>)

VARIABLES
    orbit,              \* Orbit objects: position, velocity, time, grav_param
    kind,               \* class of each propagator instance ("none": not constructed)
    step_size, p_orbit, final_time,
    hist_set,           \* FALSE while the three history attributes are None
    position_history, velocity_history, time_history,
    fg_constraint, inverse_sm_axis,
    pc, frame,          \* the running propagate() call and its locals
    calls, last,        \* number of calls made; the last call and how it ended
    snap,               \* per propagator: arguments and orbit values of its last setup()
    entry,              \* orbit values on entry to the last propagate() call
    ctor_step_size,     \* the step_size argument each instance was constructed with
    stumpff,            \* one Kepler-equation solve on numbers (SpecStumpff)
    conv                \* one element conversion and its result (SpecConv)

vars == <<orbit, kind, step_size, p_orbit, final_time, hist_set, position_history,
          velocity_history, time_history, fg_constraint, inverse_sm_axis, pc, frame,
          calls, last, snap, entry, ctor_step_size, stumpff, conv>>

\* ------------------------------------------------------------------ arrays
EmptyArray == [n |-> 0, a |-> <<>>]
At(h, k, zero) == IF k \in DOMAIN h.a THEN h.a[k] ELSE zero
Write(h, k, v) == [h EXCEPT !.a = [i \in DOMAIN h.a \cup {k} |-> IF i = k THEN v ELSE h.a[i]]]
Written(h) == DOMAIN h.a

\* ------------------------------------------------------------------ orbits
Orbit(position, velocity, time, grav_param) ==
    [position |-> position, velocity |-> velocity, time |-> time, grav_param |-> grav_param]

NoFrame ==
    [p |-> "p1", timestep |-> 0, n |-> 0, initial_time |-> 0,
     initial_position |-> Ellipsis, initial_velocity |-> Ellipsis,
     x |-> Ellipsis, x0 |-> Ellipsis, elliptic |-> TRUE, pos_at |-> 0, vel_at |-> 0]

NoSnap == [called |-> FALSE, ok |-> FALSE, time |-> 0, position |-> Ellipsis,
           velocity |-> Ellipsis, final |-> 0, step |-> 0]

NoEntry == [time |-> 0, position |-> Ellipsis, velocity |-> Ellipsis]

NoConv == [stage |-> "none", input |-> <<>>, via |-> <<>>, outcome |-> "none",
           output |-> <<>>]

NoStumpff == [stumpff_tol |-> 0, inverse_sm_axis |-> 0, x |-> 0, stumpff_param |-> 0,
              branch |-> "none", divisors |-> <<>>,
              solver |-> "universal", iter |-> 0, met |-> FALSE, outcome |-> "idle"]

\* ------------------------------------------------- Propagator.setup (helpers)
\* (final_time - self.orbit.time) / 10000
DefaultStepSize(final, t) == (final - t) \div DefaultSteps

\* int(np.floor((self.final_time - orbit.time) / self.step_size))
Timesteps(final, t, s) == (final - t) \div s

\* A variant that allocates one column per timestep and none for the initial
\* condition.
NewHistoryShort(timesteps) == [n |-> timesteps, a |-> <<>>]

\* np.zeros([.., timesteps + 1])
NewHistory(timesteps) == [n |-> timesteps + 1, a |-> <<>>]

\* The body shared by base.Propagator.setup and the constructor of the
\* Propagator of astro/propagation.py: s is the step size in use.
\* Returns what the call leaves behind.
Allocate(o, final, s) ==
    LET t == orbit[o].time
        timesteps == IF s = 0 THEN 0 ELSE Timesteps(final, t, s)
    IN  IF s = 0 \/ timesteps + 1 < 0
        THEN \* ZeroDivisionError, or ValueError raised by the first np.zeros
             [raised |-> TRUE, allocated |-> FALSE, position |-> EmptyArray,
              velocity |-> EmptyArray, time |-> EmptyArray]
        ELSE IF timesteps + 1 = 0
        THEN \* three empty arrays, then IndexError on the write of column 0
             [raised |-> TRUE, allocated |-> TRUE, position |-> NewHistory(timesteps),
              velocity |-> NewHistory(timesteps), time |-> NewHistory(timesteps)]
        ELSE [raised |-> FALSE, allocated |-> TRUE,
              position |-> Write(NewHistory(timesteps), 0, orbit[o].position),
              velocity |-> Write(NewHistory(timesteps), 0, orbit[o].velocity),
              time |-> Write(NewHistory(timesteps), 0, t)]

SnapOf(o, final, s, ok) ==
    [called |-> TRUE, ok |-> ok, time |-> orbit[o].time, position |-> orbit[o].position,
     velocity |-> orbit[o].velocity, final |-> final, step |-> s]

\* The state after construction: two Orbit objects, p1 = UniversalVariable(
\* step_size, fg_constraint=...), and p2 either a name not yet bound to an
\* instance or p2 = Keplerian(o2, final_time = 3, step_size = 1), whose
\* constructor has allocated its histories.
InitPropagators ==
    /\ orbit = [o \in Orbits |->
                  IF o = "o1"
                  THEN Orbit(T("rA", <<>>), T("vA", <<>>), Sec(0), T("mu", <<>>))
                  ELSE Orbit(T("rB", <<>>), T("vB", <<>>), Sec(1), T("mu", <<>>))]
    /\ \E k2 \in {"none", "Keplerian"}, s1 \in {None} \cup {Some(x) : x \in StepSizes} :
         LET r == Allocate("o2", Sec(3), Sec(1))
             built(p) == p = "p2" /\ k2 = "Keplerian"
         IN  /\ kind = [p \in Props |-> IF p = "p1" THEN "UV" ELSE k2]
             /\ step_size = [p \in Props |-> IF p = "p1" THEN s1
                                             ELSE IF built(p) THEN Some(Sec(1)) ELSE None]
             /\ p_orbit = [p \in Props |-> IF built(p) THEN "o2" ELSE "None"]
             /\ final_time = [p \in Props |-> IF built(p) THEN Some(Sec(3)) ELSE None]
             /\ hist_set = [p \in Props |-> built(p)]
             /\ position_history = [p \in Props |-> IF built(p) THEN r.position ELSE EmptyArray]
             /\ velocity_history = [p \in Props |-> IF built(p) THEN r.velocity ELSE EmptyArray]
             /\ time_history = [p \in Props |-> IF built(p) THEN r.time ELSE EmptyArray]
             /\ snap = [p \in Props |-> IF built(p) THEN SnapOf("o2", Sec(3), Sec(1), TRUE)
                                        ELSE NoSnap]
    /\ fg_constraint \in [Props -> BOOLEAN]
    /\ fg_constraint["p2"] = TRUE
    /\ inverse_sm_axis = [p \in Props |-> Ellipsis]
    /\ pc = "idle"
    /\ frame = NoFrame
    /\ calls = 0
    /\ last = [op |-> "none", p |-> "p1", result |-> "ok"]
    /\ entry = NoEntry
    /\ ctor_step_size = step_size

Init ==
    /\ InitPropagators
    /\ stumpff = NoStumpff
    /\ conv = NoConv

\* ----------------------------------------------------------- Propagator.setup
Setup(p, o, final) ==
    /\ pc = "idle"
    /\ kind[p] = "UV"
    /\ calls < MaxCalls
    /\ calls' = calls + 1
    /\ LET s == IF step_size[p].set THEN step_size[p].v
                ELSE DefaultStepSize(final, orbit[o].time)
           r == Allocate(o, final, s)
       IN  /\ p_orbit' = [p_orbit EXCEPT ![p] = o]
           /\ final_time' = [final_time EXCEPT ![p] = Some(final)]
           /\ step_size' = [step_size EXCEPT ![p] = Some(s)]
           /\ IF r.allocated
              THEN /\ hist_set' = [hist_set EXCEPT ![p] = TRUE]
                   /\ position_history' = [position_history EXCEPT ![p] = r.position]
                   /\ velocity_history' = [velocity_history EXCEPT ![p] = r.velocity]
                   /\ time_history' = [time_history EXCEPT ![p] = r.time]
              ELSE UNCHANGED <<hist_set, position_history, velocity_history, time_history>>
           /\ last' = [op |-> "setup", p |-> p,
                       result |-> IF r.raised THEN "raised" ELSE "ok"]
           /\ snap' = [snap EXCEPT ![p] = SnapOf(o, final, s, ~r.raised)]
    /\ UNCHANGED <<orbit, kind, fg_constraint, inverse_sm_axis, pc, frame, entry, ctor_step_size,
                   stumpff, conv>>

\* ------------------------------------------- UniversalVariable (expressions)
\* An expression node names the code formula it stands for and lists the
\* operands that can differ between two evaluations of that formula; operands
\* that are the call's locals R0, V0, X0, X or the orbit's grav_param are part
\* of the formula the node names.

\* A value read back from an attribute inside the call that produced it is the
\* expression under the call's own r0, v0.
Local(v, r0, v0) ==
    IF v.op = "with" /\ v.args[1] = r0 /\ v.args[2] = v0 THEN v.args[5] ELSE v

\* (2 * mu / norm(initial_position) - norm(initial_velocity) ** 2) / mu
InverseSmAxis == T("inverse_sm_axis", <<>>)

\* self.inverse_sm_axis * universal_variable ** 2, and stumpff_funcs of it
StumpffParam(alpha) == T("stumpff_param", <<alpha>>)

\* kepler_equation: sp.optimize.newton(eq, initial_guess, tol), eq closing over
\* self.inverse_sm_axis and self.orbit.time - initial_time
KeplerEquationUV(alpha, dt, initial_guess) ==
    T("newton", <<alpha, Num(dt), initial_guess>>)

\* 1 - universal_variable ** 2 / norm(initial_position) * c_func
FFuncUV(z) == T("f_func", <<z>>)

\* self.orbit.time - initial_time - universal_variable ** 3 / sqrt(mu) * s_func
GFuncUV(dt, z) == T("g_func", <<Num(dt), z>>)

\* f_func * initial_position + g_func * initial_velocity
\* fdot_func * initial_position + gdot_func * initial_velocity
Combine(f, r, g, v) == T("fg", <<f, r, g, v>>)

\* sqrt(mu) / (norm(self.orbit.position) * norm(initial_position)) * x * (z * s - 1)
FdotFuncUV(pos, z) == T("fdot_func", <<pos, z>>)

\* (g_func * fdot_func + 1) / f_func
GdotConstraint(g, fdot, f) == T("gdot_constraint", <<g, fdot, f>>)

\* 1 - universal_variable ** 2 / norm(self.orbit.position) * c_func
GdotFuncUV(pos, z) == T("gdot_func", <<pos, z>>)

\* A variant that starts every solve from the value at epoch.
InitialGuessEpoch(fr) == fr.x0

\* initial_guess=universal_variable / initial_guess=eccentric_anomaly: the local
\* that holds the last value solved, or the value at epoch before the first solve.
InitialGuess(fr) == fr.x

\* A variant that forms the inverse semi-major axis anew in every iteration,
\* from the position and velocity the orbit holds then.
StumpffAlphaCurrent(p, fr) ==
    T("inverse_sm_axis", <<OrbitPosition(fr.pos_at), OrbitVelocity(fr.vel_at)>>)

\* self.inverse_sm_axis as eq() and line 84 read it: the attribute, whatever
\* it holds.
StumpffAlpha(p, fr) ==
    Local(inverse_sm_axis[p], fr.initial_position, fr.initial_velocity)

\* One iteration of the loop of UniversalVariable.propagate, after
\* self.orbit.time += self.step_size: the new universal variable, position and
\* velocity expressions.  fr is the call's frame, time the orbit's new time.
UVIteration(p, fr, time) ==
    LET dt == time - fr.initial_time
        alpha == StumpffAlpha(p, fr)
        z == StumpffParam(alpha)
        f == FFuncUV(z)
        g == GFuncUV(dt, z)
        fdot == FdotFuncUV(OrbitPosition(fr.timestep), z)
        gdot == IF fg_constraint[p] THEN GdotConstraint(g, fdot, f)
                ELSE GdotFuncUV(OrbitPosition(fr.timestep), z)
    IN  [x |-> KeplerEquationUV(alpha, dt, InitialGuess(fr)),
         position |-> Combine(f, R0, g, V0),
         velocity |-> Combine(fdot, R0, gdot, V0)]

\* --------------------------------------------------- UniversalVariable.propagate
\* A variant in which propagate() on an instance without an orbit returns
\* normally.
NoOrbitSilent == "ok"

\* initial_time = self.orbit.time with self.orbit None: AttributeError.
NoOrbitResult == "raised"

\* Entry: the locals are taken from self.orbit, self.inverse_sm_axis is set,
\* and range(1, self.time_history.shape[1]) is formed.
PropagateUV(p) ==
    /\ pc = "idle"
    /\ kind[p] = "UV"
    /\ calls < MaxCalls
    /\ calls' = calls + 1
    /\ IF p_orbit[p] = "None"
       THEN \* self.orbit is None: AttributeError on self.orbit.time
            /\ last' = [op |-> "propagate", p |-> p, result |-> NoOrbitResult]
            /\ UNCHANGED <<orbit, inverse_sm_axis, pc, frame, entry>>
       ELSE LET o == orbit[p_orbit[p]] IN
            /\ inverse_sm_axis' = [inverse_sm_axis EXCEPT
                   ![p] = With(o.position, o.velocity, Num(0), Num(0), InverseSmAxis)]
            /\ entry' = [time |-> o.time, position |-> o.position, velocity |-> o.velocity]
            /\ IF ~hist_set[p]
               THEN \* self.time_history is None: AttributeError on .shape
                    /\ last' = [op |-> "propagate", p |-> p, result |-> "raised"]
                    /\ UNCHANGED <<pc, frame>>
               ELSE /\ time_history[p].n <= MaxSamples
                    /\ pc' = "loop"
                    /\ frame' = [p |-> p, timestep |-> 1, n |-> time_history[p].n,
                                 initial_time |-> o.time,
                                 initial_position |-> o.position,
                                 initial_velocity |-> o.velocity,
                                 x |-> Num(0), x0 |-> Num(0), elliptic |-> TRUE,
                                 pos_at |-> 0, vel_at |-> 0]
                    /\ last' = [op |-> "propagate", p |-> p, result |-> "running"]
            /\ UNCHANGED orbit
    /\ UNCHANGED <<kind, step_size, p_orbit, final_time, hist_set, position_history,
                   velocity_history, time_history, fg_constraint, snap, ctor_step_size,
                   stumpff, conv>>

\* A variant of the loop that numbers its writes from column 0.
WriteIndexZeroBased(fr) == fr.timestep - 1

\* The index the loop iteration writes: self.time_history[0, timestep] etc.
WriteIndex(fr) == fr.timestep

\* A variant with a rolling reference: the next iteration combines with the
\* state this iteration produced.
NextReferenceRolling(fr, position, velocity) ==
    [initial_position |-> position, initial_velocity |-> velocity]

\* The r0, v0 the next iteration combines with: the locals are never reassigned.
NextReference(fr, position, velocity) ==
    [initial_position |-> fr.initial_position, initial_velocity |-> fr.initial_velocity]

\* One iteration of the loop in which the Newton solve returns.
StepUV(p) ==
    /\ pc = "loop"
    /\ frame.p = p
    /\ kind[p] = "UV"
    /\ frame.timestep < frame.n
    /\ LET o == p_orbit[p]
           time == orbit[o].time + step_size[p].v
           it == UVIteration(p, frame, time)
           position == With(frame.initial_position, frame.initial_velocity, frame.x0,
                            it.x, it.position)
           velocity == With(frame.initial_position, frame.initial_velocity, frame.x0,
                            it.x, it.velocity)
           ref == NextReference(frame, position, velocity)
           k == WriteIndex(frame)
       IN  /\ orbit' = [orbit EXCEPT ![o] =
                          [@ EXCEPT !.time = time, !.position = position,
                                    !.velocity = velocity]]
           /\ time_history' = [time_history EXCEPT ![p] = Write(@, k, time)]
           /\ position_history' = [position_history EXCEPT ![p] = Write(@, k, position)]
           /\ velocity_history' = [velocity_history EXCEPT ![p] = Write(@, k, velocity)]
           /\ frame' = [frame EXCEPT !.timestep = @ + 1, !.x = it.x,
                                     !.initial_position = ref.initial_position,
                                     !.initial_velocity = ref.initial_velocity,
                                     !.pos_at = frame.timestep, !.vel_at = frame.timestep]
    /\ UNCHANGED <<kind, step_size, p_orbit, final_time, hist_set, fg_constraint,
                   inverse_sm_axis, pc, calls, last, snap, entry, ctor_step_size,
                   stumpff, conv>>

\* One iteration in which sp.optimize.newton raises RuntimeError (no convergence
\* within its maxiter): the time has been advanced, nothing else.
StepFail(p) ==
    /\ pc = "loop"
    /\ frame.p = p
    /\ frame.timestep < frame.n
    /\ LET o == p_orbit[p] IN
           orbit' = [orbit EXCEPT ![o].time = @ + step_size[p].v]
    /\ pc' = "idle"
    /\ last' = [op |-> "propagate", p |-> p, result |-> "raised"]
    /\ UNCHANGED <<kind, step_size, p_orbit, final_time, hist_set, position_history,
                   velocity_history, time_history, fg_constraint, inverse_sm_axis,
                   frame, calls, snap, entry, ctor_step_size,
                   stumpff, conv>>

\* The loop's range is exhausted: propagate() returns.
Return(p) ==
    /\ pc = "loop"
    /\ frame.p = p
    /\ frame.timestep >= frame.n
    /\ pc' = "idle"
    /\ last' = [op |-> "propagate", p |-> p, result |-> "ok"]
    /\ UNCHANGED <<orbit, kind, step_size, p_orbit, final_time, hist_set,
                   position_history, velocity_history, time_history, fg_constraint,
                   inverse_sm_axis, frame, calls, snap, entry, ctor_step_size,
                   stumpff, conv>>

\* ------------------------------------------------- Keplerian (astro/propagation.py)
\* Orbit.eccentricity, Orbit.sm_axis, Orbit.true_anomaly: properties computed
\* from the position and velocity the orbit holds when they are read.
Eccentricity(pos, vel) == T("orbit.eccentricity", <<pos, vel>>)
SmAxis(pos, vel) == T("orbit.sm_axis", <<pos, vel>>)
TrueAnomaly(pos, vel) == T("orbit.true_anomaly", <<pos, vel>>)

\* gauss_equation(): 2 * arctan(..) if eccentricity < 1, else 2 * arctanh(..)
GaussEquation(elliptic, ecc, nu) ==
    T(IF elliptic THEN "gauss_arctan" ELSE "gauss_arctanh", <<ecc, nu>>)

\* kepler_equation(): sp.optimize.newton(eq, initial_guess, tol=self.tol)
KeplerEquation(elliptic, a, ecc, dt, initial_guess) ==
    T(IF elliptic THEN "newton_elliptic" ELSE "newton_hyperbolic",
      <<a, ecc, Num(dt), initial_guess>>)

\* 1 - sm_axis / norm(initial_position) * (1 - cos(E - E0))      (cosh if hyperbolic)
FFunc(elliptic, a) == T(IF elliptic THEN "f_cos" ELSE "f_cosh", <<a>>)

\* time - initial_time - 1 / sqrt(mu / sm_axis ** 3) * (E - E0 - sin(E - E0))
GFunc(elliptic, dt, a) == T(IF elliptic THEN "g_sin" ELSE "g_sinh", <<Num(dt), a>>)

\* -sqrt(mu * sm_axis) / (norm(initial_position) * norm(self.orbit.position)) * sin(E - E0)
FdotFunc(elliptic, a, pos) == T(IF elliptic THEN "fdot_sin" ELSE "fdot_sinh", <<a, pos>>)

\* 1 - sm_axis / norm(self.orbit.position) * (1 - cos(E - E0))
GdotFunc(elliptic, a, pos) == T(IF elliptic THEN "gdot_cos" ELSE "gdot_cosh", <<a, pos>>)

\* One iteration of the loop of Keplerian.propagate, after
\* self.orbit.time += self.step_size.  The orbit holds the position of
\* iteration fr.pos_at and the velocity of iteration fr.vel_at until line 101 /
\* 142 assigns the new position.
KepIteration(p, fr, time) ==
    LET dt == time - fr.initial_time
        a1 == SmAxis(OrbitPosition(fr.pos_at), OrbitVelocity(fr.vel_at))
        e1 == Eccentricity(OrbitPosition(fr.pos_at), OrbitVelocity(fr.vel_at))
        f == FFunc(fr.elliptic, a1)
        g == GFunc(fr.elliptic, dt, a1)
        a2 == SmAxis(OrbitPosition(fr.timestep), OrbitVelocity(fr.vel_at))
        fdot == FdotFunc(fr.elliptic, a2, OrbitPosition(fr.timestep))
        gdot == IF fg_constraint[p] THEN GdotConstraint(g, fdot, f)
                ELSE GdotFunc(fr.elliptic, a2, OrbitPosition(fr.timestep))
    IN  [x |-> KeplerEquation(fr.elliptic, a1, e1, dt, InitialGuess(fr)),
         position |-> Combine(f, R0, g, V0),
         velocity |-> Combine(fdot, R0, gdot, V0)]

\* Keplerian(orbit, final_time, step_size, tol, fg_constraint): the constructor
\* of the base class allocates the histories; an exception leaves no instance.
ConstructKeplerian(p, o, final, step, fgc) ==
    /\ pc = "idle"
    /\ kind[p] = "none"
    /\ calls < MaxCalls
    /\ calls' = calls + 1
    /\ LET r == Allocate(o, final, step) IN
       IF r.raised
       THEN /\ last' = [op |-> "construct", p |-> p, result |-> "raised"]
            /\ UNCHANGED <<kind, step_size, p_orbit, final_time, hist_set,
                           position_history, velocity_history, time_history,
                           fg_constraint, snap, ctor_step_size>>
       ELSE /\ kind' = [kind EXCEPT ![p] = "Keplerian"]
            /\ ctor_step_size' = [ctor_step_size EXCEPT ![p] = Some(step)]
            /\ fg_constraint' = [fg_constraint EXCEPT ![p] = fgc]
            /\ p_orbit' = [p_orbit EXCEPT ![p] = o]
            /\ final_time' = [final_time EXCEPT ![p] = Some(final)]
            /\ step_size' = [step_size EXCEPT ![p] = Some(step)]
            /\ hist_set' = [hist_set EXCEPT ![p] = TRUE]
            /\ position_history' = [position_history EXCEPT ![p] = r.position]
            /\ velocity_history' = [velocity_history EXCEPT ![p] = r.velocity]
            /\ time_history' = [time_history EXCEPT ![p] = r.time]
            /\ last' = [op |-> "construct", p |-> p, result |-> "ok"]
            /\ snap' = [snap EXCEPT ![p] = SnapOf(o, final, step, TRUE)]
    /\ UNCHANGED <<orbit, inverse_sm_axis, pc, frame, entry, stumpff, conv>>

\* Entry of Keplerian.propagate: the locals and gauss_equation().  elliptic is
\* the outcome of self.orbit.eccentricity < 1; the eccentricity is a constant
\* of the motion the loop reproduces, and the outcome is kept for the call.
PropagateKeplerian(p, elliptic) ==
    /\ pc = "idle"
    /\ kind[p] = "Keplerian"
    /\ calls < MaxCalls
    /\ calls' = calls + 1
    /\ time_history[p].n <= MaxSamples
    /\ LET o == orbit[p_orbit[p]]
           E0 == GaussEquation(elliptic,
                               Eccentricity(OrbitPosition(0), OrbitVelocity(0)),
                               TrueAnomaly(OrbitPosition(0), OrbitVelocity(0)))
       IN  /\ entry' = [time |-> o.time, position |-> o.position, velocity |-> o.velocity]
           /\ frame' = [p |-> p, timestep |-> 1, n |-> time_history[p].n,
                        initial_time |-> o.time,
                        initial_position |-> o.position,
                        initial_velocity |-> o.velocity,
                        x |-> E0, x0 |-> E0, elliptic |-> elliptic,
                        pos_at |-> 0, vel_at |-> 0]
    /\ pc' = "loop"
    /\ last' = [op |-> "propagate", p |-> p, result |-> "running"]
    /\ UNCHANGED <<orbit, kind, step_size, p_orbit, final_time, hist_set,
                   position_history, velocity_history, time_history, fg_constraint,
                   inverse_sm_axis, snap, ctor_step_size,
                   stumpff, conv>>

\* One iteration of the loop in which the Newton solve returns.
StepKeplerian(p) ==
    /\ pc = "loop"
    /\ frame.p = p
    /\ kind[p] = "Keplerian"
    /\ frame.timestep < frame.n
    /\ LET o == p_orbit[p]
           time == orbit[o].time + step_size[p].v
           it == KepIteration(p, frame, time)
           position == With(frame.initial_position, frame.initial_velocity, frame.x0,
                            it.x, it.position)
           velocity == With(frame.initial_position, frame.initial_velocity, frame.x0,
                            it.x, it.velocity)
           ref == NextReference(frame, position, velocity)
           k == WriteIndex(frame)
       IN  /\ orbit' = [orbit EXCEPT ![o] =
                          [@ EXCEPT !.time = time, !.position = position,
                                    !.velocity = velocity]]
           /\ time_history' = [time_history EXCEPT ![p] = Write(@, k, time)]
           /\ position_history' = [position_history EXCEPT ![p] = Write(@, k, position)]
           /\ velocity_history' = [velocity_history EXCEPT ![p] = Write(@, k, velocity)]
           /\ frame' = [frame EXCEPT !.timestep = @ + 1, !.x = it.x,
                                     !.initial_position = ref.initial_position,
                                     !.initial_velocity = ref.initial_velocity,
                                     !.pos_at = frame.timestep, !.vel_at = frame.timestep]
    /\ UNCHANGED <<kind, step_size, p_orbit, final_time, hist_set, fg_constraint,
                   inverse_sm_axis, pc, calls, last, snap, entry, ctor_step_size,
                   stumpff, conv>>

Next ==
    \/ \E p \in Props, o \in Orbits, f \in FinalTimes : Setup(p, o, f)
    \/ \E p \in Props : PropagateUV(p)
    \/ \E p \in Props : StepUV(p)
    \/ \E p \in Props, o \in Orbits, f \in FinalTimes, s \in StepSizes, c \in BOOLEAN :
           ConstructKeplerian(p, o, f, s, c)
    \/ \E p \in Props, e \in BOOLEAN : PropagateKeplerian(p, e)
    \/ \E p \in Props : StepKeplerian(p)
    \/ \E p \in Props : StepFail(p)
    \/ \E p \in Props : Return(p)

Spec == Init /\ [][Next]_vars

\* ------------------------------------------------------ lifecycle properties
\* A call begins in this step: setup() / propagate() on p, or Keplerian(..)
\* bound to p.
Calling(op, p) == calls' = calls + 1 /\ last'.op = op /\ last'.p = p

\* C1: after setup(orbit, finalTime) with step size s > 0 and finalTime >=
\* orbit.time, the time, position and velocity histories each have exactly
\* floor((finalTime - orbit.time) / s) + 1 columns, the written columns lie
\* inside them, and this stays so through every propagate() until the next
\* setup().
C1_HistoryLength ==
    \A p \in Props :
        (snap[p].called /\ snap[p].step > 0 /\ snap[p].final >= snap[p].time) =>
            LET len == ((snap[p].final - snap[p].time) \div snap[p].step) + 1 IN
            /\ hist_set[p]
            /\ time_history[p].n = len
            /\ position_history[p].n = len
            /\ velocity_history[p].n = len
            /\ Written(time_history[p]) \subseteq 0..(len - 1)
            /\ Written(position_history[p]) \subseteq 0..(len - 1)
            /\ Written(velocity_history[p]) \subseteq 0..(len - 1)

\* A propagate() call has returned on a propagator whose span is not a whole
\* number of steps, and every column is written.
C1_Witness ==
    \E p \in Props :
        /\ snap[p].called /\ snap[p].step > 0 /\ snap[p].final > snap[p].time
        /\ (snap[p].final - snap[p].time) % snap[p].step # 0
        /\ last = [op |-> "propagate", p |-> p, result |-> "ok"]
        /\ time_history[p].n >= 2
        /\ Written(time_history[p]) = 0..(time_history[p].n - 1)

\* C2: in every state after a setup() that returned normally (before, during
\* and after any propagate()), column 0 of the three histories holds the time,
\* position and velocity the orbit had when setup() was called.
C2_InitialSample ==
    \A p \in Props :
        (snap[p].called /\ snap[p].ok) =>
            /\ hist_set[p]
            /\ 0 \in Written(time_history[p])
            /\ 0 \in Written(position_history[p])
            /\ 0 \in Written(velocity_history[p])
            /\ time_history[p].a[0] = snap[p].time
            /\ position_history[p].a[0] = snap[p].position
            /\ velocity_history[p].a[0] = snap[p].velocity

\* A propagate() call has written columns 1 and 2 and returned; the orbit has
\* moved away from the state setup() recorded.
C2_Witness ==
    \E p \in Props :
        /\ snap[p].called /\ snap[p].ok
        /\ last = [op |-> "propagate", p |-> p, result |-> "ok"]
        /\ {1, 2} \subseteq Written(position_history[p])
        /\ orbit[p_orbit[p]].position # snap[p].position
        /\ orbit[p_orbit[p]].time # snap[p].time

\* C3: for every setup(orbit, finalTime) call on a propagator constructed
\* without a step size, the step size the call uses is
\* (finalTime - orbit.time) / 10000 of that call's arguments, and the histories
\* it leaves have 10001 columns.  (Stated for finalTime # orbit.time; the span
\* of zero, whose default step is 0, is the case of C4.)
C3_DefaultStep ==
    \A p \in Props :
        (kind[p] = "UV" /\ ~ctor_step_size[p].set /\ snap[p].called
            /\ snap[p].final # snap[p].time) =>
            /\ snap[p].step = DefaultStepSize(snap[p].final, snap[p].time)
            /\ snap[p].ok
            /\ hist_set[p]
            /\ time_history[p].n = DefaultSteps + 1
            /\ position_history[p].n = DefaultSteps + 1
            /\ velocity_history[p].n = DefaultSteps + 1

\* C4: for every configuration (step size given or omitted), setup() with
\* finalTime equal to the orbit's time returns normally and leaves histories
\* of exactly one column holding the initial time, position and velocity, and
\* the propagate() that follows returns normally and leaves them so.
C4_ZeroSpan ==
    \A p \in Props :
        (snap[p].called /\ snap[p].final = snap[p].time) =>
            /\ snap[p].ok
            /\ hist_set[p]
            /\ time_history[p] = [n |-> 1, a |-> (0 :> snap[p].time)]
            /\ position_history[p] = [n |-> 1, a |-> (0 :> snap[p].position)]
            /\ velocity_history[p] = [n |-> 1, a |-> (0 :> snap[p].velocity)]
            /\ (last.op = "propagate" /\ last.p = p) => last.result # "raised"

\* C5: propagate() on a propagator on which setup() has never been called
\* signals an error and leaves the propagator as it was: orbit, final_time and
\* the histories unset, step_size and inverse_sm_axis untouched, no orbit
\* changed, no loop entered.
C5_PropagateUnconfigured ==
    [][\A p \in Props :
          (kind[p] = "UV" /\ ~snap[p].called /\ Calling("propagate", p)) =>
              /\ last'.result = "raised"
              /\ pc' = "idle"
              /\ p_orbit'[p] = "None" /\ ~final_time'[p].set /\ ~hist_set'[p]
              /\ UNCHANGED <<orbit, step_size, p_orbit, final_time, hist_set,
                             position_history, velocity_history, time_history,
                             inverse_sm_axis, frame>>]_vars

\* propagate() has just raised on a propagator that was never set up.
C5_Witness ==
    /\ last.op = "propagate" /\ last.result = "raised"
    /\ kind[last.p] = "UV"
    /\ ~snap[last.p].called
    /\ p_orbit[last.p] = "None" /\ ~hist_set[last.p]
    /\ pc = "idle"

\* C6: a setup() call on an instance on which an earlier setup() returned
\* normally signals an error and leaves the orbit reference, final time, step
\* size and histories of the first setup().
C6_SetupTwice ==
    [][\A p \in Props :
          (snap[p].called /\ snap[p].ok /\ Calling("setup", p)) =>
              /\ last'.result = "raised"
              /\ p_orbit'[p] = p_orbit[p]
              /\ final_time'[p] = final_time[p]
              /\ step_size'[p] = step_size[p]
              /\ time_history'[p] = time_history[p]
              /\ position_history'[p] = position_history[p]
              /\ velocity_history'[p] = velocity_history[p]]_vars

\* C7: once a propagate() call on an instance has returned, the next
\* propagate() call on that instance is rejected: it signals an error, enters
\* no loop, and changes no history sample and no orbit.
C7_PropagatedTerminal ==
    [][\A p \in Props :
          (last = [op |-> "propagate", p |-> p, result |-> "ok"]
              /\ Calling("propagate", p)) =>
              /\ last'.result = "raised"
              /\ pc' = "idle"
              /\ UNCHANGED <<orbit, time_history, position_history,
                             velocity_history>>]_vars

\* C8: in both propagators, every sample k >= 1 the running (or last) propagate()
\* call has written is f * r0 + g * v0 and fdot * r0 + gdot * v0 with r0, v0
\* the position and velocity the orbit had when that call began, never the
\* sample of step k - 1, and the elapsed time in g and in the Kepler solve is
\* the sample's time minus the time at which the call began.
C8_FixedReference ==
    (last.op = "propagate" /\ last.p = frame.p) =>
        LET p == frame.p IN
        \A k \in 1..(frame.timestep - 1) :
            LET r == position_history[p].a[k]
                v == velocity_history[p].a[k]
                dt == time_history[p].a[k] - entry.time
            IN  /\ r.op = "with" /\ v.op = "with"
                /\ r.args[1] = entry.position /\ r.args[2] = entry.velocity
                /\ v.args[1] = entry.position /\ v.args[2] = entry.velocity
                /\ r.args[5].op = "fg" /\ v.args[5].op = "fg"
                /\ r.args[5].args[2] = R0 /\ r.args[5].args[4] = V0
                /\ v.args[5].args[2] = R0 /\ v.args[5].args[4] = V0
                /\ r.args[5].args[3].args[1] = Num(dt)
                /\ r.args[4].args[IF kind[p] = "UV" THEN 2 ELSE 3] = Num(dt)
                /\ v.args[4] = r.args[4]
                /\ k >= 2 => /\ r.args[1] # position_history[p].a[k - 1]
                             /\ r.args[2] # velocity_history[p].a[k - 1]

\* A Keplerian instance is inside propagate() with samples 1 and 2 written, and
\* a UniversalVariable instance holds samples 1 and 2 of a run that began at its
\* sample 0.
C8_Witness ==
    \E p, q \in Props :
        /\ kind[p] = "UV" /\ kind[q] = "Keplerian"
        /\ pc = "loop" /\ frame.p = q /\ frame.timestep >= 3
        /\ last.op = "propagate" /\ last.p = q
        /\ {1, 2} \subseteq Written(position_history[p])
        /\ position_history[p].a[2].op = "with"
        /\ position_history[p].a[2].args[1] = position_history[p].a[0]
        /\ velocity_history[p].a[2].args[2] = velocity_history[p].a[0]

\* C9: the histories are append-only.  Iteration k of the loop of propagate()
\* writes column k of the three histories and leaves every other column; a
\* step that is neither a loop iteration nor a setup()/constructor call leaves
\* the histories; and outside setup() a column once written keeps its value.
C9_AppendOnly ==
    [][\A p \in Props :
          LET settingUp == Calling("setup", p) \/ Calling("construct", p)
              stepping == pc = "loop" /\ frame.p = p
                          /\ frame'.timestep = frame.timestep + 1
              k == frame.timestep
          IN  /\ stepping =>
                    /\ Written(time_history'[p]) = Written(time_history[p]) \cup {k}
                    /\ Written(position_history'[p]) = Written(position_history[p]) \cup {k}
                    /\ Written(velocity_history'[p]) = Written(velocity_history[p]) \cup {k}
              /\ (~stepping /\ ~settingUp) =>
                    /\ time_history'[p] = time_history[p]
                    /\ position_history'[p] = position_history[p]
                    /\ velocity_history'[p] = velocity_history[p]
              /\ ~settingUp =>
                    /\ \A i \in Written(time_history[p]) :
                           time_history'[p].a[i] = time_history[p].a[i]
                    /\ \A i \in Written(position_history[p]) :
                           position_history'[p].a[i] = position_history[p].a[i]
                    /\ \A i \in Written(velocity_history[p]) :
                           velocity_history'[p].a[i] = velocity_history[p].a[i]]_vars

\* An expression reads Orbit.sm_axis / eccentricity / true_anomaly only from a
\* state the orbit really passed through: the position and the velocity of the
\* same iteration.  The Lagrange coefficients f, g, fdot, gdot carry (r0, v0)
\* to a state of the same energy and angular momentum only when they are
\* evaluated with the semi-major axis of that orbit; a semi-major axis read
\* from the position of iteration k and the velocity of iteration k - 1 is the
\* semi-major axis of another orbit.
RECURSIVE ConsistentReads(_)
ConsistentReads(e) ==
    /\ e.op \in {"orbit.sm_axis", "orbit.eccentricity", "orbit.true_anomaly"} =>
           e.args[1].args[1] = e.args[2].args[1]
    /\ \A i \in DOMAIN e.args : ConsistentReads(e.args[i])

\* C15: over the trajectory a completed propagate() leaves, every sample has
\* the specific energy and the specific angular momentum of sample 0: each
\* sample k >= 1 is f * r0 + g * v0, fdot * r0 + gdot * v0 with all four
\* coefficients evaluated on the orbit of (r0, v0).
C15_Conservation ==
    \A p \in Props :
        (last = [op |-> "propagate", p |-> p, result |-> "ok"]) =>
            \A k \in Written(velocity_history[p]) \ {0} :
                /\ position_history[p].a[k].op = "with"
                /\ position_history[p].a[k].args[5].op = "fg"
                /\ velocity_history[p].a[k].args[5].op = "fg"
                /\ ConsistentReads(position_history[p].a[k])
                /\ ConsistentReads(velocity_history[p].a[k])

\* The step is taken by a call on instance q: the call is made in this step, or
\* it is the call whose loop is running.
ActsOn(q) ==
    \/ calls' = calls + 1 /\ last'.p = q
    \/ pc = "loop" /\ frame.p = q

\* C17: propagator instances are independent.  No step of a setup() or
\* propagate() call on one instance changes the history arrays another
\* instance holds, nor the state of the Orbit another instance holds, from
\* which that instance's next propagate() produces its history.
C17_Independent ==
    [][\A p \in Props : \A q \in Props \ {p} :
          (ActsOn(q) /\ kind[p] # "none") =>
              /\ position_history'[p] = position_history[p]
              /\ velocity_history'[p] = velocity_history[p]
              /\ time_history'[p] = time_history[p]
              /\ p_orbit[p] # "None" => orbit'[p_orbit[p]] = orbit[p_orbit[p]]]_vars

\* The value at epoch of the variable the propagator of instance p solves for:
\* universal_variable = 0, or initial_eccentric_anomaly = self.gauss_equation().
EpochValue(p) ==
    IF kind[p] = "UV" THEN Num(0)
    ELSE GaussEquation(frame.elliptic,
                       Eccentricity(OrbitPosition(0), OrbitVelocity(0)),
                       TrueAnomaly(OrbitPosition(0), OrbitVelocity(0)))

\* The columns the propagate() call on p, running or returned, has written.
StepsDone(p) ==
    IF last.op = "propagate" /\ last.p = p /\ last.result \in {"running", "ok"}
       /\ frame.p = p
    THEN 1..(frame.timestep - 1) ELSE {}

\* The Newton solve behind sample k of p, and the guess it was started from.
SolveOf(p, k) == position_history[p].a[k].args[4]
SeedOf(p, k) == SolveOf(p, k).args[Len(SolveOf(p, k).args)]

\* C18: in one propagate() call the Newton solve of step 1 starts from the
\* value at epoch (0 for the universal variable, gauss_equation() for the
\* eccentric anomaly) and the solve of every step k >= 2 starts from the value
\* solved at step k - 1, never from the value at epoch again.
C18_ContinuationSeeding ==
    \A p \in Props : \A k \in StepsDone(p) :
        /\ SolveOf(p, k).op \in {"newton", "newton_elliptic", "newton_hyperbolic"}
        /\ velocity_history[p].a[k].args[4] = SolveOf(p, k)
        /\ k = 1 => SeedOf(p, k) = EpochValue(p)
        /\ k >= 2 => /\ SeedOf(p, k) = SolveOf(p, k - 1)
                     /\ SeedOf(p, k) # EpochValue(p)

C18_Witness ==
    \E p \in Props :
        /\ last = [op |-> "propagate", p |-> p, result |-> "ok"]
        /\ kind[p] = "UV"
        /\ 3 \in StepsDone(p)
        /\ SeedOf(p, 1) = Num(0)
        /\ SeedOf(p, 3) = SolveOf(p, 2)

\* Every inverse semi-major axis an expression was computed with: the operand
\* of its Stumpff parameters and of the eq() of its Newton solves.
RECURSIVE AlphasOf(_)
AlphasOf(e) ==
    (IF e.op \in {"stumpff_param", "newton"} THEN {e.args[1]} ELSE {})
        \cup UNION {AlphasOf(e.args[i]) : i \in DOMAIN e.args}

\* In a universal-variable propagate() call self.inverse_sm_axis is the value
\* computed from the call's initial position and velocity, and every sample
\* the call has written was computed with that value and no other.
UsesOneAlpha ==
    \A p \in Props : \A k \in StepsDone(p) :
        kind[p] = "UV" =>
            /\ inverse_sm_axis[p] = With(frame.initial_position, frame.initial_velocity,
                                         Num(0), Num(0), InverseSmAxis)
            /\ frame.initial_position = entry.position
            /\ frame.initial_velocity = entry.velocity
            /\ AlphasOf(position_history[p].a[k]) = {InverseSmAxis}
            /\ AlphasOf(velocity_history[p].a[k]) = {InverseSmAxis}

\* C19: the universal-variable propagator computes the inverse semi-major axis
\* once per propagate() call, before the first step, from the initial state
\* (2*mu/|r0| - |v0|^2)/mu; no step of the loop changes it, and every Stumpff
\* parameter of every step and Newton iterate of the run is formed with it.
C19_InverseSmAxisOnce ==
    [][/\ pc = "loop" => inverse_sm_axis' = inverse_sm_axis
       /\ UsesOneAlpha']_vars

C19_Witness ==
    \E p \in Props :
        /\ last = [op |-> "propagate", p |-> p, result |-> "ok"]
        /\ kind[p] = "UV"
        /\ 2 \in StepsDone(p)
        /\ inverse_sm_axis[p].op = "with"
        /\ AlphasOf(velocity_history[p].a[2]) = {InverseSmAxis}

\* C20: when a propagate() call on an instance set up with step size s > 0 and
\* finalTime >= t0 has completed, the time sample at every index k is
\* t0 + k * s, t0 being the time in sample 0; the samples are strictly
\* increasing; and the last sample lies in (finalTime - s, finalTime].
C20_TimeGrid ==
    \A p \in Props :
        (/\ last = [op |-> "propagate", p |-> p, result |-> "ok"]
         /\ snap[p].ok /\ snap[p].step > 0 /\ snap[p].final >= snap[p].time) =>
            LET h == time_history[p]
                t0 == At(h, 0, 0)
                s == snap[p].step
                t_last == At(h, h.n - 1, 0)
            IN  /\ \A k \in 0..(h.n - 1) : At(h, k, 0) = t0 + k * s
                /\ \A k \in 1..(h.n - 1) : At(h, k, 0) > At(h, k - 1, 0)
                /\ snap[p].final - s < t_last
                /\ t_last <= snap[p].final

\* The Orbit instance p holds has the time, position and velocity of sample k
\* of p's history.
OrbitAtSample(p, k) ==
    LET o == orbit[p_orbit[p]] IN
        /\ o.time = At(time_history[p], k, 0)
        /\ o.position = At(position_history[p], k, Zeros)
        /\ o.velocity = At(velocity_history[p], k, Zeros)

\* C21: setup() leaves the Orbit passed to it unmodified and the orbit is
\* mutated only by propagation steps; after step k of propagate() has written
\* its sample the orbit's time, position and velocity equal history sample k,
\* and when propagate() completes the caller's Orbit equals the last sample.
C21_OrbitFollowsHistory ==
    [][/\ (calls' = calls + 1 /\ last'.op \in {"setup", "construct"}) => orbit' = orbit
       /\ orbit' # orbit => pc = "loop"
       /\ \A p \in Props, k \in 0..MaxSamples :
              (pc = "loop" /\ frame.p = p /\ k = frame.timestep
                  /\ frame'.timestep = k + 1) => OrbitAtSample(p, k)'
       /\ \A p \in Props, k \in 0..MaxSamples :
              (pc = "loop" /\ last' = [op |-> "propagate", p |-> p, result |-> "ok"]
                  /\ k = time_history[p].n - 1) => OrbitAtSample(p, k)']_vars

\* The reads of self.orbit.sm_axis and self.orbit.eccentricity an expression
\* was computed from, each with the samples the orbit's position and velocity
\* belonged to when it was read.
RECURSIVE DerivedReads(_)
DerivedReads(e) ==
    (IF e.op \in {"orbit.sm_axis", "orbit.eccentricity"} THEN {e} ELSE {})
        \cup UNION {DerivedReads(e.args[i]) : i \in DOMAIN e.args}

\* The reads made by step k of the Keplerian propagate() call on p: those of
\* its Kepler solve and those of its f, g, fdot and gdot.
StepReads(p, k) ==
    {SolveOf(p, k).args[1], SolveOf(p, k).args[2]}
        \cup DerivedReads(position_history[p].a[k].args[5])
        \cup DerivedReads(velocity_history[p].a[k].args[5])

\* C22: in the Keplerian propagator every read of the semi-major axis or the
\* eccentricity during a step is made while the orbit's position and velocity
\* belong to the same sample, and f, g, fdot and gdot of one step are computed
\* with one semi-major axis.
C22_ConsistentDerivedReads ==
    \A p \in Props : \A k \in StepsDone(p) :
        kind[p] = "Keplerian" =>
            /\ \A r \in StepReads(p, k) : r.args[1].args[1] = r.args[2].args[1]
            /\ Cardinality({r \in StepReads(p, k) : r.op = "orbit.sm_axis"}) = 1

\* C24: a setup() call that raises leaves the propagator exactly as it was
\* before the call: orbit, final_time, step_size and the three history buffers
\* are unchanged (so an Unconfigured propagator stays Unconfigured).
C24_FailedSetupAtomic ==
    [][\A p \in Props :
          (calls' = calls + 1 /\ last' = [op |-> "setup", p |-> p, result |-> "raised"]) =>
              /\ p_orbit'[p] = p_orbit[p]
              /\ final_time'[p] = final_time[p]
              /\ step_size'[p] = step_size[p]
              /\ hist_set'[p] = hist_set[p]
              /\ position_history'[p] = position_history[p]
              /\ velocity_history'[p] = velocity_history[p]
              /\ time_history'[p] = time_history[p]]_vars

\* C25: if the Kepler solve fails at step k of propagate(), no partial result
\* is kept: no history sample is written (those at indices >= k are not
\* written, those at indices < k are unchanged) and the orbit's time, position
\* and velocity all equal history sample k - 1.
C25_FailedStepKeepsNothing ==
    [][\A p \in Props, k \in 1..MaxSamples :
          (/\ pc = "loop" /\ frame.p = p /\ frame.timestep = k
           /\ last' = [op |-> "propagate", p |-> p, result |-> "raised"]) =>
              /\ position_history'[p] = position_history[p]
              /\ velocity_history'[p] = velocity_history[p]
              /\ time_history'[p] = time_history[p]
              /\ OrbitAtSample(p, k - 1)']_vars

\* ------------------------------------------- UniversalVariable.stumpff_funcs
\* The branch of stumpff_funcs on numbers.  The Stumpff parameter, the inverse
\* semi-major axis and stumpff_tol are integers (multiples of one small unit);
\* a square root is zero exactly when its radicand is, so a divisor
\* np.sqrt(r) is recorded as r.
Abs(z) == IF z < 0 THEN -z ELSE z

StumpffBranch(z, tol) ==
    IF Abs(z) < tol THEN "series"
    ELSE IF z > 0 THEN "elliptic"
    ELSE "hyperbolic"

\* What the chosen branch divides by: factorials in the series (never 0),
\* np.sqrt(z ** 3) and z in the elliptic branch, np.sqrt(-z ** 3) and z in the
\* hyperbolic branch.
StumpffDivisors(z, branch) ==
    IF branch \in {"series", "none"} THEN <<>>
    ELSE IF branch = "elliptic" THEN <<z * z * z, z>>
    ELSE <<-(z * z * z), z>>

\* sp.optimize.newton(eq, initial_guess, tol=..) with the library's defaults
\* (secant method, an iteration cap of 50 that MaxIter scales down, disp=True):
\* what the call does after an evaluation of eq.  iter counts the evaluations,
\* met says that the step between the last two iterates is within tol.
\* A variant that returns the last iterate when the cap is reached.
NewtonOutcomeSilent(iter, met) ==
    IF met \/ iter >= MaxIter THEN "returned" ELSE "solving"

\* Returns the iterate when the tolerance is met, raises RuntimeError("Failed
\* to converge after .. iterations") when the cap is reached without it.
NewtonOutcome(iter, met) ==
    IF met THEN "returned"
    ELSE IF iter >= MaxIter THEN "raised"
    ELSE "solving"

\* One evaluation of eq(x).  In UniversalVariable.kepler_equation, and in
\* lines 84-85 of propagate, it forms the Stumpff parameter of x and calls
\* stumpff_funcs on it; the eq of Keplerian.kepler_equation has no Stumpff
\* series.
EvalStumpff(x, iter, met) ==
    LET z == stumpff.inverse_sm_axis * x * x
        b == IF stumpff.solver = "universal" THEN StumpffBranch(z, stumpff.stumpff_tol)
             ELSE "none"
    IN  stumpff' = [stumpff EXCEPT !.x = x, !.stumpff_param = z, !.branch = b,
                                   !.divisors = StumpffDivisors(z, b),
                                   !.iter = iter, !.met = met,
                                   !.outcome = NewtonOutcome(iter, met)]

\* The first Newton iterate of the first timestep: universal_variable = 0 (the
\* reference anomaly, numbered 0, in the Keplerian propagator).
FirstIterate ==
    /\ stumpff.outcome = "idle"
    /\ \E met \in BOOLEAN : EvalStumpff(0, 1, met)
    /\ UNCHANGED <<orbit, kind, step_size, p_orbit, final_time, hist_set,
                   position_history, velocity_history, time_history, fg_constraint,
                   inverse_sm_axis, pc, frame, calls, last, snap, entry, ctor_step_size, conv>>

\* A later iterate of the same solve.
Iterate(x) ==
    /\ stumpff.outcome = "solving"
    /\ \E met \in BOOLEAN : EvalStumpff(x, stumpff.iter + 1, met)
    /\ UNCHANGED <<orbit, kind, step_size, p_orbit, final_time, hist_set,
                   position_history, velocity_history, time_history, fg_constraint,
                   inverse_sm_axis, pc, frame, calls, last, snap, entry, ctor_step_size, conv>>

\* The solve of the next timestep: its first iterate is the value the previous
\* solve returned.
NextSolve ==
    /\ stumpff.outcome = "returned"
    /\ \E met \in BOOLEAN : EvalStumpff(stumpff.x, 1, met)
    /\ UNCHANGED <<orbit, kind, step_size, p_orbit, final_time, hist_set,
                   position_history, velocity_history, time_history, fg_constraint,
                   inverse_sm_axis, pc, frame, calls, last, snap, entry, ctor_step_size, conv>>

InitStumpff ==
    /\ InitPropagators
    /\ \E tol \in 0..MaxTol, alpha \in (-MaxAlpha)..MaxAlpha,
          solver \in {"universal", "classical"} :
           stumpff = [NoStumpff EXCEPT !.stumpff_tol = tol, !.inverse_sm_axis = alpha,
                                       !.solver = solver]
    /\ conv = NoConv

NextStumpff ==
    \/ FirstIterate
    \/ \E x \in (-MaxX)..MaxX : Iterate(x)
    \/ NextSolve

SpecStumpff == InitStumpff /\ [][NextStumpff]_vars

\* C10: stumpff_funcs never divides by zero.  For every Stumpff parameter z
\* (z = 0 at the first Newton iterate included) and every configured
\* stumpff_tol, no divisor of the branch taken is 0, the closed-form branches
\* run only with z # 0, and z = 0 is handled by the series branch.
C10_NoDivisionByZero ==
    (stumpff.branch # "none") =>
        /\ \A i \in DOMAIN stumpff.divisors : stumpff.divisors[i] # 0
        /\ stumpff.branch \in {"elliptic", "hyperbolic"} => stumpff.stumpff_param # 0
        /\ stumpff.stumpff_param = 0 => stumpff.branch = "series"

EccDen == 2
TwoPi == 2 * HalfTurn
Angles == 0..(TwoPi - 1)
Inclinations == 0..HalfTurn
Eccentricities == 0..(2 * EccDen - 1)
SmAxes == {-2, 1, 2}

Elements(sm_axis, eccentricity, raan, argp, inclination, true_anomaly) ==
    [sm_axis |-> sm_axis, eccentricity |-> eccentricity, raan |-> raan, argp |-> argp,
     inclination |-> inclination, true_anomaly |-> true_anomaly]

\* sm_axis * (1 - eccentricity ** 2), in units of 1 / EccDen ** 2
SlRectum(sm_axis, eccentricity) ==
    sm_axis * (EccDen * EccDen - eccentricity * eccentricity)

\* Shapes of the arrays that hold a position or a velocity.
ColumnShape == <<3, 1>>
FlatShape == <<3>>

\* classic_elements_2_state.  numeric is the type of the numbers passed in:
\* "float" (Python float or int) or "float64" (numpy scalars).  With a
\* semi-latus rectum of 0, grav_param / sl_rectum on line 28 raises
\* ZeroDivisionError for Python numbers and yields inf (with a warning) for
\* numpy scalars; the routine then returns a state holding nan.
ClassicElements2StateResult(el, numeric) ==
    IF SlRectum(el.sm_axis, el.eccentricity) # 0
    THEN [outcome |-> "returned",
          output |-> <<T("position", <<>>), T("velocity", <<>>)>>]
    ELSE IF numeric = "float"
    THEN [outcome |-> "raised", output |-> <<>>]
    ELSE [outcome |-> "returned",
          output |-> <<IF el.true_anomaly = HalfTurn THEN T("nan", <<>>) ELSE Zeros,
                       T("nan", <<>>)>>]

Unchanged_Propagators ==
    UNCHANGED <<orbit, kind, step_size, p_orbit, final_time, hist_set,
                position_history, velocity_history, time_history, fg_constraint,
                inverse_sm_axis, pc, frame, calls, last, snap, entry, ctor_step_size,
                stumpff>>

ClassicElements2State(numeric) ==
    /\ conv.stage = "input"
    /\ LET r == ClassicElements2StateResult(conv.input, numeric) IN
           conv' = [conv EXCEPT !.stage = "classic_elements_2_state",
                                !.outcome = r.outcome, !.output = r.output,
                                !.via = [routine |-> "classic_elements_2_state",
                                         elements |-> conv.input, shape |-> FlatShape]]
    /\ Unchanged_Propagators

\* A 2-vector (mag * cos(angle), mag * sin(angle)): mag is kept only up to
\* "zero or positive", the angle is kept as the sum the code formed.
Polar(mag, angle) == [mag |-> mag, angle |-> angle]

\* An angle brought into (-pi, pi], the range of np.arctan2.
WrapPi(angle) ==
    LET m == angle % TwoPi IN IF m > HalfTurn THEN m - TwoPi ELSE m

\* np.arctan2(v.y, v.x); np.arctan2(0, 0) is 0.
Arctan2(v) == IF v.mag = 0 THEN 0 ELSE WrapPi(v.angle)

\* (u.y * v.x - u.x * v.y, u.x * v.x + u.y * v.y): magnitude the product of the
\* magnitudes, angle the difference of the angles.
CrossDot(u, v) == Polar(u.mag * v.mag, u.angle - v.angle)

\* classical_2_equinoctial.  (e_component1, e_component2) and (n_component1,
\* n_component2) are returned as the 2-vectors they form; the magnitude
\* tan(inclination / 2) of the second is recorded as the inclination, of which
\* it is an increasing function, 0 at 0.
Classical2EquinoctialResult(sm_axis, eccentricity, raan, argp, inclination, true_anomaly) ==
    [sl_rectum |-> SlRectum(sm_axis, eccentricity),
     e_component |-> Polar(eccentricity, argp + raan),
     n_component |-> Polar(inclination, raan),
     true_latitude |-> raan + argp + true_anomaly]

\* equinoctial_2_classical: the six values in the order of its return
\* statement.  1 - e_component1 ** 2 - e_component2 ** 2 is 0 at eccentricity
\* 1, where numpy yields nan.
Equinoctial2ClassicalResult(q) ==
    LET denom == EccDen * EccDen - q.e_component.mag * q.e_component.mag
        sm_axis == IF denom = 0 THEN T("nan", <<>>) ELSE Num(q.sl_rectum \div denom)
        eccentricity == q.e_component.mag
        inclination == q.n_component.mag
        argp == Arctan2(CrossDot(q.e_component, q.n_component))
        raan == Arctan2(q.n_component)
        true_anomaly == q.true_latitude - Arctan2(q.e_component)
    IN  <<sm_axis, eccentricity, raan, argp, inclination, true_anomaly>>

\* The arguments as a call passes them positionally.
Positional(el) ==
    <<Num(el.sm_axis), el.eccentricity, el.raan, el.argp, el.inclination, el.true_anomaly>>

Classical2Equinoctial ==
    /\ conv.stage = "input"
    /\ LET el == conv.input
           q == Classical2EquinoctialResult(el.sm_axis, el.eccentricity, el.raan, el.argp,
                                            el.inclination, el.true_anomaly)
       IN  conv' = [conv EXCEPT !.stage = "classical_2_equinoctial",
                                !.outcome = "returned", !.via = q]
    /\ Unchanged_Propagators

Equinoctial2Classical ==
    /\ conv.stage = "classical_2_equinoctial"
    /\ conv' = [conv EXCEPT !.stage = "equinoctial_2_classical",
                            !.outcome = "returned",
                            !.output = Equinoctial2ClassicalResult(conv.via)]
    /\ Unchanged_Propagators

\* ---- util.py.  A state is recorded as the routine and elements it came from
\* and the shape of its two arrays: (3, 1) from util.elements_2_state, which
\* builds column vectors, (3,) from conversions.classic_elements_2_state.
\* util.elements_2_state: its radial rate is sqrt(mu * p) * sin(nu) / p and its
\* transverse rate r * sqrt(mu * p) * cos(nu), recorded under the routine's name.
Elements2StateResult(el) ==
    [routine |-> "util.elements_2_state", elements |-> el, shape |-> ColumnShape]

\* np.cross raises ValueError unless the last axis of both operands has
\* length 2 or 3.
CrossRaises(shape_a, shape_b) ==
    \/ shape_a[Len(shape_a)] \notin {2, 3}
    \/ shape_b[Len(shape_b)] \notin {2, 3}

\* state_2_elements.  Line 44 crosses position with velocity, line 46 crosses
\* unit_vec_3, a (3, 1) array, with the angular momentum.  The values behind
\* the return statement: the angles pass through arctan2 and "if < 0: += 2*pi";
\* the first argument of the inclination's arctan2 has the factor
\* np.dot(node_vec, unit_vec_3), which is 0, so the inclination comes out as 0
\* or pi; the state of util.elements_2_state is not the state of its elements.
State2ElementsResult(st) ==
    IF CrossRaises(st.shape, st.shape) \/ CrossRaises(ColumnShape, FlatShape)
    THEN [outcome |-> "raised", output |-> <<>>]
    ELSE LET el == st.elements
             inclination == IF 2 * el.inclination <= HalfTurn THEN 0 ELSE HalfTurn
         IN  [outcome |-> "returned",
              output |-> IF st.routine = "util.elements_2_state"
                         THEN <<T("sm_axis", <<>>), T("eccentricity", <<>>),
                                el.raan % TwoPi, inclination, T("argp", <<>>),
                                T("true_anomaly", <<>>)>>
                         ELSE <<Num(el.sm_axis), el.eccentricity, el.raan % TwoPi,
                                inclination, el.argp % TwoPi, el.true_anomaly % TwoPi>>]

Elements2State ==
    /\ conv.stage = "input"
    /\ conv' = [conv EXCEPT !.stage = "elements_2_state", !.outcome = "returned",
                            !.via = Elements2StateResult(conv.input)]
    /\ Unchanged_Propagators

\* state_2_elements applied to the state either routine returned.
State2Elements ==
    /\ conv.stage \in {"elements_2_state", "classic_elements_2_state"}
    /\ conv.outcome = "returned"
    /\ LET r == State2ElementsResult(conv.via) IN
           conv' = [conv EXCEPT !.stage = "state_2_elements", !.outcome = r.outcome,
                                !.output = r.output]
    /\ Unchanged_Propagators

\* "if angle < 0: angle += 2 * np.pi" applied to an np.arctan2 result.
WrapTwoPi(angle) == IF angle < 0 THEN angle + TwoPi ELSE angle

\* The angle properties of an Orbit holding the state st.  All of them cross
\* position with velocity (spf_angular_momentum); raan, inclination and argp
\* also cross unit_vec_3, a (3, 1) array, with the angular momentum;
\* true_anomaly is arctan2 of the position's components along and across the
\* eccentricity vector (both 0 on a circular orbit), then wrapped.  A state
\* built with a semi-latus rectum that is not positive holds nan, and so does
\* the angle computed from it.
OrbitAngleResult(property, st) ==
    IF CrossRaises(st.shape, st.shape)
       \/ (property # "true_anomaly" /\ CrossRaises(ColumnShape, FlatShape))
    THEN [outcome |-> "raised", output |-> <<>>]
    ELSE IF SlRectum(st.elements.sm_axis, st.elements.eccentricity) <= 0
    THEN [outcome |-> "nan", output |-> <<>>]
    ELSE [outcome |-> "returned",
          output |-> <<WrapTwoPi(Arctan2(Polar(st.elements.eccentricity,
                                                st.elements.true_anomaly)))>>]

\* Orbit(position, velocity, ..) on the state a routine returned, and a read of
\* one of its angle properties.
OrbitAngle(property) ==
    /\ conv.stage \in {"elements_2_state", "classic_elements_2_state"}
    /\ conv.outcome = "returned"
    /\ LET r == OrbitAngleResult(property, conv.via) IN
           conv' = [conv EXCEPT !.stage = "Orbit", !.outcome = r.outcome,
                                !.output = r.output]
    /\ Unchanged_Propagators

\* ---- orbits.py: the alternative constructors.
\* grav_param=3.986004418e14, the default of Orbit.__init__ and of both
\* classmethods.
DefaultGravParam == T("3.986004418e14", <<>>)
GravParams == {DefaultGravParam, T("mu", <<>>)}

\* cls(position, velocity, grav_param): Orbit.__init__(self, position,
\* velocity, time, grav_param=3.986004418e14) binds the third positional
\* argument to time and leaves grav_param at its default.
FromStateResult(position, velocity, grav_param) ==
    Orbit(position, velocity, grav_param, DefaultGravParam)

\* Orbit.from_state(position, velocity, grav_param) on the state a routine
\* returned.
FromState(grav_param) ==
    /\ conv.stage \in {"elements_2_state", "classic_elements_2_state"}
    /\ conv.outcome = "returned"
    /\ conv' = [conv EXCEPT
           !.stage = "Orbit.from_state",
           !.via = [routine |-> "Orbit.from_state", grav_param |-> grav_param],
           !.output = <<FromStateResult(conv.via, conv.via, grav_param)>>]
    /\ Unchanged_Propagators

\* Orbit.from_orbital_elements(.., grav_param): util.elements_2_state with
\* keyword arguments, then cls(position, velocity, grav_param).
FromOrbitalElements(grav_param) ==
    /\ conv.stage = "input"
    /\ LET st == Elements2StateResult(conv.input) IN
           conv' = [conv EXCEPT
               !.stage = "Orbit.from_orbital_elements",
               !.outcome = "returned",
               !.via = [routine |-> "Orbit.from_orbital_elements",
                        grav_param |-> grav_param],
               !.output = <<FromStateResult(st, st, grav_param)>>]
    /\ Unchanged_Propagators

AllElements ==
    {Elements(a, e, raan, argp, i, nu) :
        a \in SmAxes, e \in Eccentricities, raan \in Angles, argp \in Angles,
        i \in Inclinations, nu \in Angles}

InitConv ==
    /\ InitPropagators
    /\ kind["p2"] = "none" /\ ~step_size["p1"].set /\ fg_constraint["p1"]
    /\ stumpff = NoStumpff
    /\ \E el \in AllElements : conv = [NoConv EXCEPT !.stage = "input", !.input = el]

NextConv ==
    \/ \E numeric \in {"float", "float64"} : ClassicElements2State(numeric)
    \/ Classical2Equinoctial
    \/ Equinoctial2Classical
    \/ Elements2State
    \/ State2Elements
    \/ \E property \in {"raan", "inclination", "argp", "true_anomaly"} : OrbitAngle(property)
    \/ \E grav_param \in GravParams : FromState(grav_param)
    \/ \E grav_param \in GravParams : FromOrbitalElements(grav_param)

SpecConv == InitConv /\ [][NextConv]_vars

\* C12: classic_elements_2_state called with eccentricity exactly 1 signals an
\* error instead of returning a position and velocity.
C12_ParabolicRejected ==
    (conv.stage = "classic_elements_2_state" /\ conv.input.eccentricity = EccDen) =>
        (conv.outcome = "raised" /\ conv.output = <<>>)

\* Valid classical elements: an ellipse with a > 0 or a hyperbola with a < 0,
\* the inclination below pi.
ValidElements(el) ==
    /\ el.eccentricity # EccDen
    /\ (el.eccentricity < EccDen) = (el.sm_axis > 0)
    /\ el.inclination < HalfTurn

\* C13: for all valid classical elements with angles in [0, 2*pi) and i in
\* [0, pi), equinoctial_2_classical(classical_2_equinoctial(..)) returns the
\* same six values in the same order, each angle equal to the input.  (Stated
\* for e # 0 and i # 0, where the three angles are determined.)
C13_EquinoctialRoundTrip ==
    (conv.stage = "equinoctial_2_classical" /\ ValidElements(conv.input)
        /\ conv.input.eccentricity # 0 /\ conv.input.inclination # 0) =>
        conv.output = Positional(conv.input)

\* C14: for all valid (a, e, RAAN, argp, i, nu) with e not in {0, 1} and i not
\* in {0, pi}, converting the elements to a state (util.elements_2_state or
\* classic_elements_2_state) and back with state_2_elements returns each
\* element in the position at which it was supplied.
C14_StateRoundTrip ==
    (conv.stage = "state_2_elements" /\ ValidElements(conv.input)
        /\ conv.input.eccentricity # 0 /\ conv.input.inclination # 0) =>
        (conv.outcome = "returned" /\ conv.output = Positional(conv.input))

\* C16: every angle the element-recovery routines return lies in [0, 2*pi):
\* RAAN, argp and true anomaly of equinoctial_2_classical, RAAN, argp and true
\* anomaly of state_2_elements, and the angle of an Orbit angle property, for
\* all inputs.
C16_AngleRange ==
    /\ conv.stage = "equinoctial_2_classical" =>
           /\ conv.output[3] \in 0..(TwoPi - 1)
           /\ conv.output[4] \in 0..(TwoPi - 1)
           /\ conv.output[6] \in 0..(TwoPi - 1)
    /\ (conv.stage = "state_2_elements" /\ conv.outcome = "returned") =>
           /\ conv.output[3] \in 0..(TwoPi - 1)
           /\ conv.output[5] \in 0..(TwoPi - 1)
           /\ conv.output[6] \in 0..(TwoPi - 1)
    /\ (conv.stage = "Orbit" /\ conv.outcome # "raised") =>
           /\ conv.outcome = "returned"
           /\ conv.output[1] \in 0..(TwoPi - 1)

\* C23: an Orbit built by Orbit.from_state(position, velocity, grav_param) or
\* Orbit.from_orbital_elements(.., grav_param) has grav_param equal to the
\* gravitational parameter supplied, and its time is not set from it.
C23_GravParamKept ==
    conv.stage \in {"Orbit.from_state", "Orbit.from_orbital_elements"} =>
        /\ conv.output[1].grav_param = conv.via.grav_param
        /\ conv.output[1].time # conv.via.grav_param
====
